---- MODULE Spec2Model ----
(***************************************************************************)
(* A model of src/main.py: the FastAPI process that proxies the CTA train  *)
(* positions feed (GET /find-train/{route}), serves index.html (GET /) and *)
(* stores evidence photos in an S3 bucket (POST /submit-report).           *)
(*                                                                         *)
(* Units.  Coordinates are integers counting centimetres of arc along one  *)
(* meridian: with both points on the same meridian the haversine formula   *)
(* of calculate_distance reduces to R * |lat2 - lat1| (in radians), so a   *)
(* distance is the absolute difference of two latitudes, in centimetres.   *)
(* distance_meters, which the code rounds to one decimal, is an integer    *)
(* number of decimetres.  Coordinates are finite numbers.                  *)
(***************************************************************************)
EXTENDS Integers, Sequences, FiniteSets, TLC

VARIABLES
    environ,                \* os.environ once load_dotenv() has run
    proc,                   \* "boot" | "serving" | "failed": the module import
    CTA_API_KEY,            \* module globals, lines 17-23
    AWS_ACCESS_KEY_ID,
    AWS_SECRET_ACCESS_KEY,
    AWS_BUCKET_NAME,
    s3_client,              \* "unbound" | "client": the global of line 31
    root_response,          \* what GET / answered
    ft_request,             \* the GET /find-train request and what the feed answered
    ft_response,            \* what find_user_train answered
    now,                    \* the wall clock, in ticks
    bucket,                 \* the S3 bucket: key -> stored bytes
    subs                    \* the POST /submit-report requests

vars == <<environ, proc, CTA_API_KEY, AWS_ACCESS_KEY_ID, AWS_SECRET_ACCESS_KEY,
          AWS_BUCKET_NAME, s3_client, root_response, ft_request, ft_response,
          now, bucket, subs>>

configVars == <<CTA_API_KEY, AWS_ACCESS_KEY_ID, AWS_SECRET_ACCESS_KEY, AWS_BUCKET_NAME>>

(***************************************************************************)
(* Bounds of the model.                                                    *)
(***************************************************************************)
\* the longest train list the feed sends
MaxTrains == 3
\* the number of POST /submit-report requests
MaxSubmissions == 2
\* the last tick of the wall clock
MaxNow == 2
\* the ticks of the wall clock in one second
TicksPerSecond == 2

(***************************************************************************)
(* Python values.                                                          *)
(***************************************************************************)
\* Python's None (os.getenv of an unset name, JSON null)
None == "<None>"
\* a name not bound yet
Unbound == "<unbound>"
\* no response yet
NoResponse == [status |-> 0]

\* bool(v) of a str-or-None
Truthy(v) == v # None /\ v # ""

\* d.get(k, default)
Get(d, k, default) == IF k \in DOMAIN d THEN d[k] ELSE default

\* the dict d without the key k
Without(d, k) == [f \in DOMAIN d \ {k} |-> d[f]]

Abs(n) == IF n < 0 THEN -n ELSE n

(***************************************************************************)
(* calculate_distance, lines 93-100, and the parsing and rounding around   *)
(* it.                                                                     *)
(***************************************************************************)
\* the decimal literals of the feed's lat and lon fields, and their values
FloatLiterals == {"0", "5000", "15000", "19975", "19996", "20004"}

\* float(s): the number a literal stands for; anything else raises ValueError
IsFloatLiteral(s) == s \in FloatLiterals

float(s) ==
    CASE s = "0" -> 0
      [] s = "5000" -> 5000
      [] s = "15000" -> 15000
      [] s = "19975" -> 19975
      [] s = "19996" -> 19996
      [] s = "20004" -> 20004

\* haversine on one meridian: R * c with a = sin^2(dphi / 2), so c = |dphi|
calculate_distance(lat1, lon1, lat2, lon2) ==
    CASE lon1 = lon2 -> Abs(lat2 - lat1)

\* round(x, 1): centimetres to the nearest decimetre, a tie to the even one (a float
\* sits exactly on a tie only at such values as 199.75, which the feed's lats include)
round1(cm) ==
    LET q == cm \div 10
        r == cm % 10
    IN  IF r < 5 THEN q
        ELSE IF r > 5 THEN q + 1
        ELSE IF q % 2 = 0 THEN q ELSE q + 1

\* the 200 of line 144, in metres
ConfidenceThreshold == 200

(***************************************************************************)
(* find_user_train, lines 102-148.                                         *)
(***************************************************************************)
\* the body of the loop for one record that passed the isSch test, lines 124-135:
\* the dict appended, or the exception raised
RankedTrain(t, lat, lon) ==
    IF "lat" \notin DOMAIN t THEN [exc |-> "KeyError"]
    ELSE IF ~IsFloatLiteral(t.lat) THEN [exc |-> "ValueError"]
    ELSE IF "lon" \notin DOMAIN t THEN [exc |-> "KeyError"]
    ELSE IF ~IsFloatLiteral(t.lon) THEN [exc |-> "ValueError"]
    ELSE IF "rn" \notin DOMAIN t THEN [exc |-> "KeyError"]
    ELSE IF "destNm" \notin DOMAIN t THEN [exc |-> "KeyError"]
    ELSE IF "nextStaNm" \notin DOMAIN t THEN [exc |-> "KeyError"]
    ELSE [exc |-> "",
          train |-> [run_number |-> t.rn,
                     destination |-> t.destNm,
                     next_stop |-> t.nextStaNm,
                     lat |-> float(t.lat),
                     lon |-> float(t.lon),
                     distance_meters |->
                         round1(calculate_distance(lat, lon, float(t.lat), float(t.lon)))]]

\* line 123: the ghost flag test, '1' = ghost, '0' = live, a missing flag read as '0'
PassesGhostFilter(t) == Get(t, "isSch", "0") = "0"

\* the loop of lines 121-135 from record i on, live_trains so far being acc
RECURSIVE CollectLive(_, _, _, _, _)
CollectLive(raw_trains, lat, lon, i, acc) ==
    IF i > Len(raw_trains) THEN [exc |-> "", live_trains |-> acc]
    ELSE IF PassesGhostFilter(raw_trains[i])
         THEN LET r == RankedTrain(raw_trains[i], lat, lon)
              IN  IF r.exc # "" THEN [exc |-> r.exc, live_trains |-> acc]
                  ELSE CollectLive(raw_trains, lat, lon, i + 1, Append(acc, r.train))
         ELSE CollectLive(raw_trains, lat, lon, i + 1, acc)

\* x put into the sorted list s after every entry that is not farther (stable)
RECURSIVE InsertByDistance(_, _)
InsertByDistance(s, x) ==
    IF s = <<>> THEN <<x>>
    ELSE IF x.distance_meters < Head(s).distance_meters THEN <<x>> \o s
    ELSE <<Head(s)>> \o InsertByDistance(Tail(s), x)

\* a faulty variant: the sort of line 137 left out
SortByDistance_Omitted(s) == s

\* line 137: live_trains.sort(key=distance_meters), a stable sort
RECURSIVE SortByDistance(_)
SortByDistance(s) ==
    IF s = <<>> THEN <<>>
    ELSE InsertByDistance(SortByDistance(SubSeq(s, 1, Len(s) - 1)), s[Len(s)])

\* line 144
Confidence(closest) ==
    IF closest.distance_meters < ConfidenceThreshold * 10 THEN "High" ELSE "Low"

\* a faulty variant: the empty case answers with the (empty) list instead of the message
RankTrains_EmptyList(raw_trains, lat, lon) ==
    LET c == CollectLive(raw_trains, lat, lon, 1, <<>>)
        live_trains == SortByDistance(c.live_trains)
    IN  IF c.exc # "" THEN [status |-> 500, exc |-> c.exc]
        ELSE IF live_trains # <<>>
        THEN [status |-> 200,
              body |-> [found |-> TRUE,
                        closest_train |-> live_trains[1],
                        confidence |-> Confidence(live_trains[1]),
                        all_trains |-> live_trains]]
        ELSE [status |-> 200,
              body |-> [found |-> FALSE, all_trains |-> live_trains]]

\* lines 119-148: the ranking of the feed's train list
RankTrains(raw_trains, lat, lon) ==
    LET c == CollectLive(raw_trains, lat, lon, 1, <<>>)
        live_trains == SortByDistance(c.live_trains)
    IN  IF c.exc # "" THEN [status |-> 500, exc |-> c.exc]
        ELSE IF live_trains # <<>>
        THEN [status |-> 200,
              body |-> [found |-> TRUE,
                        closest_train |-> live_trains[1],
                        confidence |-> Confidence(live_trains[1]),
                        all_trains |-> live_trains]]
        ELSE [status |-> 200,
              body |-> [found |-> FALSE, message |-> "No live trains found."]]

\* lines 114-117: data['ctatt']['route'][0]['train'] raises KeyError or IndexError
HasTrainList(data) ==
    /\ "ctatt" \in DOMAIN data
    /\ "route" \in DOMAIN data.ctatt
    /\ Len(data.ctatt.route) >= 1
    /\ "train" \in DOMAIN data.ctatt.route[1]

\* line 111: data.get('ctatt', {}).get('errNm'), None when either key is missing
ErrNm(data) ==
    IF "ctatt" \in DOMAIN data THEN Get(data.ctatt, "errNm", None) ELSE None

\* a faulty variant: the train list is looked up before the error name is tested
find_user_train_KeysFirst(route, lat, lon, fetch) ==
    IF fetch.raised # ""
    THEN [status |-> 500, detail |-> "Failed to connect to CTA"]
    ELSE IF ~HasTrainList(fetch.data)
    THEN [status |-> 200,
          body |-> [found |-> FALSE,
                    message |-> "No trains found on this line right now."]]
    ELSE IF Truthy(ErrNm(fetch.data))
    THEN [status |-> 400, detail |-> ErrNm(fetch.data)]
    ELSE RankTrains(fetch.data.ctatt.route[1].train, lat, lon)

\* lines 104-148: fetch is what requests.get, raise_for_status and json() did
find_user_train(route, lat, lon, fetch) ==
    IF fetch.raised # ""
    THEN [status |-> 500, detail |-> "Failed to connect to CTA"]
    ELSE IF Truthy(ErrNm(fetch.data))
    THEN [status |-> 400, detail |-> ErrNm(fetch.data)]
    ELSE IF ~HasTrainList(fetch.data)
    THEN [status |-> 200,
          body |-> [found |-> FALSE,
                    message |-> "No trains found on this line right now."]]
    ELSE RankTrains(fetch.data.ctatt.route[1].train, lat, lon)

(***************************************************************************)
(* The feed: what requests.get(BASE_URL, ...) can answer, line 105.        *)
(***************************************************************************)
\* a record of the feed's train list with every field present
TrainRecord(lat, isSch) ==
    [rn |-> "101", destNm |-> "Howard", nextStaNm |-> "Fullerton",
     lat |-> lat, lon |-> "0", isSch |-> isSch]

TrainLats == {"5000", "15000", "19975", "19996", "20004"}

WellFormedRecords == {TrainRecord(l, s) : l \in TrainLats, s \in {"0", "1"}}

\* records with one field missing or malformed
DefectiveRecords ==
    {Without(TrainRecord("5000", s), "lat") : s \in {"0", "1"}}
    \cup {[TrainRecord("5000", s) EXCEPT !.lat = "abc"] : s \in {"0", "1"}}
    \cup {Without(TrainRecord("5000", "0"), "lon"),
          [TrainRecord("5000", "1") EXCEPT !.lon = "abc"],
          Without(TrainRecord("5000", "0"), "rn"),
          Without(TrainRecord("5000", "1"), "destNm"),
          Without(TrainRecord("5000", "0"), "nextStaNm"),
          Without(TrainRecord("5000", "0"), "isSch"),
          [TrainRecord("5000", "0") EXCEPT !.isSch = "2"]}

TrainRecords == WellFormedRecords \cup DefectiveRecords

TrainLists == UNION {[1..n -> TrainRecords] : n \in 0..MaxTrains}

\* the JSON document {ctatt: {errNm, route: [{train: [...]}]}}
Ctatt(errNm, route) == [tmst |-> "now", errCd |-> "0", errNm |-> errNm, route |-> route]

Fetched(data) == [raised |-> "", data |-> data]

\* a well-formed answer around every train list
RankFeeds ==
    {Fetched([ctatt |-> Ctatt(None, <<[name |-> "red", train |-> tl]>>)]) : tl \in TrainLists}

\* the shapes of the route list: absent (None here), empty, without and with trains
RouteShapes ==
    {<<>>, <<[name |-> "red"]>>}
    \cup {<<[name |-> "red", train |-> tl]>> :
            tl \in {<<>>, <<TrainRecord("5000", "0")>>, <<TrainRecord("5000", "1")>>}}

\* the answers whose envelope varies, and the fetches that raise
EnvelopeFeeds ==
    {Fetched([ctatt |-> Ctatt(e, r)]) : e \in {None, "", "Invalid API key"}, r \in RouteShapes}
    \cup {Fetched([ctatt |-> Without(Ctatt(e, r), "errNm")]) : e \in {None}, r \in RouteShapes}
    \cup {Fetched([ctatt |-> Without(Ctatt(e, <<>>), "route")]) :
            e \in {None, "", "Invalid API key"}}
    \cup {Fetched([ctatt |-> [tmst |-> "now", errCd |-> "0"]]),
          Fetched([message |-> "Service Unavailable"])}
    \cup {[raised |-> x, data |-> [message |-> ""]] : x \in {"ConnectionError", "HTTPError"}}

\* the requester's latitude, a float already when the handler runs
RequesterLats == {0, 4}

(***************************************************************************)
(* The module import, lines 13-49.                                         *)
(***************************************************************************)
ConfigNames == {"CTA_API_KEY", "AWS_ACCESS_KEY_ID", "AWS_SECRET_ACCESS_KEY", "AWS_BUCKET_NAME"}

\* a faulty variant: the values are tested against None only, so an empty one passes
ConfigComplete_NotNone(cta, bucketName, keyId, secret) ==
    cta # None /\ bucketName # None /\ keyId # None /\ secret # None

\* line 26: the test that decides whether line 27 raises ValueError
ConfigComplete(cta, bucketName, keyId, secret) ==
    Truthy(cta) /\ Truthy(bucketName) /\ Truthy(keyId) /\ Truthy(secret)

\* lines 17-38: read the four values; raise ValueError when one is missing, else
\* create the S3 client, which boto3 may refuse with an exception that is only printed
Startup ==
    /\ proc = "boot"
    /\ AWS_ACCESS_KEY_ID' = environ["AWS_ACCESS_KEY_ID"]
    /\ AWS_SECRET_ACCESS_KEY' = environ["AWS_SECRET_ACCESS_KEY"]
    /\ AWS_BUCKET_NAME' = environ["AWS_BUCKET_NAME"]
    /\ CTA_API_KEY' = environ["CTA_API_KEY"]
    /\ IF ConfigComplete(environ["CTA_API_KEY"], environ["AWS_BUCKET_NAME"],
                         environ["AWS_ACCESS_KEY_ID"], environ["AWS_SECRET_ACCESS_KEY"])
       THEN /\ proc' = "serving"
            /\ \E created \in BOOLEAN :
                   s3_client' = IF created THEN "client" ELSE Unbound
       ELSE /\ proc' = "failed"
            /\ s3_client' = Unbound
    /\ UNCHANGED <<environ, root_response, ft_request, ft_response, now, bucket, subs>>

(***************************************************************************)
(* GET /, lines 86-91.                                                     *)
(***************************************************************************)
read_root(exists) ==
    IF exists THEN [status |-> 200, text |-> "<html>"]
    ELSE [status |-> 200, text |-> "Error: index.html not found."]

ReadRoot ==
    /\ proc = "serving"
    /\ root_response.status = 0
    /\ \E exists \in BOOLEAN : root_response' = read_root(exists)
    /\ UNCHANGED <<environ, proc, configVars, s3_client, ft_request, ft_response,
                   now, bucket, subs>>

(***************************************************************************)
(* GET /find-train/{route}, lines 102-148.                                 *)
(***************************************************************************)
FindTrain(feeds) ==
    /\ proc = "serving"
    /\ ft_response.status = 0
    /\ \E lat \in RequesterLats, fetch \in feeds :
          /\ ft_request' = [route |-> "red", lat |-> lat, lon |-> float("0"),
                            key |-> CTA_API_KEY, fetch |-> fetch]
          /\ ft_response' = find_user_train("red", lat, float("0"), fetch)
    /\ UNCHANGED <<environ, proc, configVars, s3_client, root_response, now, bucket, subs>>

(***************************************************************************)
(* POST /submit-report, lines 52-82.                                       *)
(***************************************************************************)
RunNumbers == {"101", "102"}

\* datetime.now().strftime("%Y%m%d-%H%M%S"): the clock cut to whole seconds
strftime(t) == t \div TicksPerSecond

\* line 60: f"reports/{timestamp}_RUN{run_number}.jpg"
S3Key(timestamp, run_number) == <<"reports/", timestamp, "_RUN", run_number, ".jpg">>

\* line 75: f"https://{AWS_BUCKET_NAME}.s3.amazonaws.com/{s3_key}"
FileUrl(bucketName, s3_key) == <<"https://", bucketName, ".s3.amazonaws.com/", s3_key>>

\* the bytes of the photo request i uploads: every request brings its own
Photo(i) == i

NoKey == S3Key(0, "")

NewSubmission ==
    [pc |-> "new", run_number |-> "", s3_key |-> NoKey, file_content |-> 0,
     read |-> "", upload |-> "", uploads |-> 0, status |-> 0,
     file_url |-> FileUrl("", NoKey)]

\* Bucket.put: the object under key is replaced
PutObject(b, key, content) ==
    [k \in DOMAIN b \cup {key} |-> IF k = key THEN content ELSE b[k]]

\* lines 59-60: the request arrives; the timestamp and the key are made
SubmitBegin(i) ==
    /\ proc = "serving"
    /\ subs[i].pc = "new"
    /\ \E run_number \in RunNumbers :
          subs' = [subs EXCEPT ![i].pc = "keyed",
                               ![i].run_number = run_number,
                               ![i].s3_key = S3Key(strftime(now), run_number)]
    /\ UNCHANGED <<environ, proc, configVars, s3_client, root_response, ft_request,
                   ft_response, now, bucket>>

\* line 65: await file.read(); an exception goes to lines 79-82
SubmitRead(i) ==
    /\ subs[i].pc = "keyed"
    /\ \E ok \in BOOLEAN :
          subs' = IF ok
                  THEN [subs EXCEPT ![i].pc = "read", ![i].read = "ok",
                                    ![i].file_content = Photo(i)]
                  ELSE [subs EXCEPT ![i].pc = "done", ![i].read = "raised",
                                    ![i].status = 500]
    /\ UNCHANGED <<environ, proc, configVars, s3_client, root_response, ft_request,
                   ft_response, now, bucket>>

\* a faulty variant: an upload that raised is tried again
UploadFailed_Retry(sub) == [sub EXCEPT !.uploads = @ + 1]

\* what the try block does with an upload that raised, lines 79-82
UploadFailed(sub) ==
    [sub EXCEPT !.pc = "done", !.upload = "raised", !.uploads = @ + 1, !.status = 500]

\* lines 68-77: one upload_fileobj call, then the receipt; lines 79-82 when it raises
\* (a NameError when the client was never bound: then there was no call)
SubmitUpload(i) ==
    /\ subs[i].pc = "read"
    /\ IF s3_client = Unbound
       THEN /\ subs' = [subs EXCEPT ![i].pc = "done", ![i].upload = "NameError",
                                    ![i].status = 500]
            /\ UNCHANGED bucket
       ELSE \E ok \in BOOLEAN :
              IF ok
              THEN /\ bucket' = PutObject(bucket, subs[i].s3_key, subs[i].file_content)
                   /\ subs' = [subs EXCEPT ![i].pc = "done", ![i].upload = "ok",
                                 ![i].uploads = @ + 1, ![i].status = 200,
                                 ![i].file_url = FileUrl(AWS_BUCKET_NAME, subs[i].s3_key)]
              ELSE /\ subs' = [subs EXCEPT ![i] = UploadFailed(@)]
                   /\ UNCHANGED bucket
    /\ UNCHANGED <<environ, proc, configVars, s3_client, root_response, ft_request,
                   ft_response, now>>

\* time passes
Tick ==
    /\ now < MaxNow
    /\ now' = now + 1
    /\ UNCHANGED <<environ, proc, configVars, s3_client, root_response, ft_request,
                   ft_response, bucket, subs>>

(***************************************************************************)
(* The specifications.                                                     *)
(***************************************************************************)
NoRequest ==
    [route |-> "", lat |-> 0, lon |-> 0, key |-> Unbound,
     fetch |-> [raised |-> "", data |-> [message |-> ""]]]

Requests ==
    /\ root_response = NoResponse
    /\ ft_request = NoRequest
    /\ ft_response = NoResponse
    /\ now = 0
    /\ bucket = <<>>
    /\ subs = [i \in 1..MaxSubmissions |-> NewSubmission]

\* the process before the import: any of the four values unset, empty or set
Init ==
    /\ environ \in [ConfigNames -> {None, "", "set"}]
    /\ proc = "boot"
    /\ CTA_API_KEY = Unbound
    /\ AWS_ACCESS_KEY_ID = Unbound
    /\ AWS_SECRET_ACCESS_KEY = Unbound
    /\ AWS_BUCKET_NAME = Unbound
    /\ s3_client = Unbound
    /\ Requests

\* the process after a successful import
Serving ==
    /\ environ = [n \in ConfigNames |-> "set"]
    /\ proc = "serving"
    /\ CTA_API_KEY = "set"
    /\ AWS_ACCESS_KEY_ID = "set"
    /\ AWS_SECRET_ACCESS_KEY = "set"
    /\ AWS_BUCKET_NAME = "set"
    /\ s3_client \in {"client", Unbound}
    /\ Requests

\* the whole process, one request to each endpoint
Next ==
    \/ Startup
    \/ ReadRoot
    \/ FindTrain(EnvelopeFeeds)
    \/ SubmitBegin(1)
    \/ SubmitRead(1)
    \/ SubmitUpload(1)
    \/ Tick

Spec == Init /\ [][Next]_vars

\* GET /find-train over every train list
NextRank == FindTrain(RankFeeds)

SpecRank == Serving /\ [][NextRank]_vars

\* concurrent POST /submit-report requests
NextSubmit ==
    \/ \E i \in 1..MaxSubmissions : SubmitBegin(i) \/ SubmitRead(i) \/ SubmitUpload(i)
    \/ Tick

SpecSubmit == Serving /\ [][NextSubmit]_vars

(***************************************************************************)
(* The vocabulary of the properties.                                       *)
(***************************************************************************)
\* find_user_train has answered
Answered == ft_response.status # 0

\* the train list the feed sent (SpecRank: every feed carries one)
Raw == ft_request.fetch.data.ctatt.route[1].train

\* the JSON body of a result with found = true
Found == ft_response.status = 200 /\ ft_response.body.found

\* a live record: its scheduled flag is "0"; a ghost record: the flag is "1"
IsLive(t) == "isSch" \in DOMAIN t /\ t.isSch = "0"
IsGhost(t) == "isSch" \in DOMAIN t /\ t.isSch = "1"

\* the expected fields of a record
RecordFields == {"rn", "destNm", "nextStaNm", "lat", "lon", "isSch"}

\* a record with an expected field missing or malformed
Defective(t) ==
    \/ RecordFields \ DOMAIN t # {}
    \/ ~IsFloatLiteral(t.lat)
    \/ ~IsFloatLiteral(t.lon)
    \/ t.isSch \notin {"0", "1"}

\* the ranked train c carries the fields of the record t
BuiltFrom(c, t) ==
    /\ {"rn", "destNm", "nextStaNm", "lat", "lon"} \subseteq DOMAIN t
    /\ IsFloatLiteral(t.lat) /\ IsFloatLiteral(t.lon)
    /\ c.run_number = t.rn /\ c.destination = t.destNm /\ c.next_stop = t.nextStaNm
    /\ c.lat = float(t.lat) /\ c.lon = float(t.lon)

\* the distance, in centimetres, from the requester to a position
DistanceTo(lat, lon) == calculate_distance(ft_request.lat, ft_request.lon, lat, lon)

(***************************************************************************)
(* C1.  Whenever find_user_train returns found = true, closest_train is    *)
(* built from a live record (isSch = "0") of the feed's list and no live   *)
(* record of the list has a smaller distance_meters; a ghost is never the  *)
(* closest train.                                                          *)
(***************************************************************************)
C1_ClosestIsNearestLive ==
    Found =>
        LET closest == ft_response.body.closest_train
        IN  /\ \E i \in DOMAIN Raw : IsLive(Raw[i]) /\ BuiltFrom(closest, Raw[i])
            /\ \A j \in DOMAIN Raw :
                  IsLive(Raw[j]) =>
                      closest.distance_meters
                          <= round1(DistanceTo(float(Raw[j].lat), float(Raw[j].lon)))

(***************************************************************************)
(* C2.  In every found = true result all_trains is sorted ascending by     *)
(* distance_meters (each entry is at most as far as the next) and          *)
(* closest_train is its first entry.                                       *)
(***************************************************************************)
C2_AllTrainsSorted ==
    Found =>
        LET all_trains == ft_response.body.all_trains
        IN  /\ \A i \in 1..(Len(all_trains) - 1) :
                  all_trains[i].distance_meters <= all_trains[i + 1].distance_meters
            /\ all_trains # <<>>
            /\ ft_response.body.closest_train = all_trains[1]

\* three trains ranked that the feed did not send nearest first
C2_Witness ==
    /\ Found
    /\ Len(ft_response.body.all_trains) = 3
    /\ \A i \in DOMAIN Raw : ~Defective(Raw[i])
    /\ float(Raw[1].lat) > float(Raw[2].lat)
    /\ float(Raw[2].lat) > float(Raw[3].lat)

(***************************************************************************)
(* C3.  As claimed: for an empty train list find_user_train returns        *)
(* found = false together with an empty ranked list.                       *)
(***************************************************************************)
C3_EmptyListReturned ==
    (Answered /\ Raw = <<>>) =>
        /\ ft_response.status = 200
        /\ ~ft_response.body.found
        /\ "all_trains" \in DOMAIN ft_response.body
        /\ ft_response.body.all_trains = <<>>

(***************************************************************************)
(* C3, amended.  For an empty train list find_user_train returns           *)
(* found = false with the message "No live trains found." and nothing      *)
(* else: the result carries no ranked list, no closest train and no        *)
(* confidence.                                                             *)
(***************************************************************************)
C3_EmptyListNotFound ==
    (Answered /\ Raw = <<>>) =>
        /\ ft_response.status = 200
        /\ ~ft_response.body.found
        /\ DOMAIN ft_response.body = {"found", "message"}
        /\ ft_response.body.message = "No live trains found."

C3_Witness == Answered /\ Raw = <<>>

(***************************************************************************)
(* C4.  A missing or malformed expected field on any record of the list,   *)
(* ghost or live, makes find_user_train fail: no normal ranking result is  *)
(* returned.                                                               *)
(***************************************************************************)
C4_DefectiveRecordFails ==
    (Answered /\ \E i \in DOMAIN Raw : Defective(Raw[i])) =>
        ft_response.status = 500

(***************************************************************************)
(* C5.  In a found = true result confidence is "High" exactly when the     *)
(* computed distance of the closest train is strictly below 200.0 metres,  *)
(* and distance_meters is that distance rounded to one decimal.            *)
(***************************************************************************)
C5_ConfidenceByComputedDistance ==
    Found =>
        LET closest == ft_response.body.closest_train
            dist_meters == DistanceTo(closest.lat, closest.lon)
        IN  /\ ft_response.body.confidence \in {"High", "Low"}
            /\ ft_response.body.confidence = "High"
                  <=> dist_meters < ConfidenceThreshold * 100
            /\ closest.distance_meters = round1(dist_meters)

(***************************************************************************)
(* C6.  A result of find_user_train has found = true if and only if the    *)
(* list holds at least one live record; a result for a list of ghosts      *)
(* only has found = false, no closest_train and no confidence.             *)
(***************************************************************************)
C6_FoundIffLive ==
    (Answered /\ ft_response.status = 200) =>
        /\ ft_response.body.found <=> \E i \in DOMAIN Raw : IsLive(Raw[i])
        /\ (\A i \in DOMAIN Raw : IsGhost(Raw[i])) =>
              /\ ~ft_response.body.found
              /\ "closest_train" \notin DOMAIN ft_response.body
              /\ "confidence" \notin DOMAIN ft_response.body

(***************************************************************************)
(* C7.  Every outcome of GET /find-train falls in one class, decided in    *)
(* this order: a fetch that raised gives 500; else an answer carrying an   *)
(* error name gives 400 with that name in detail; else an answer missing   *)
(* ctatt, route, route[0] or train gives a normal found = false result     *)
(* with a message; only otherwise is the train list ranked.                *)
(***************************************************************************)
FetchRaised == ft_request.fetch.raised # ""

CarriesErrNm ==
    /\ "ctatt" \in DOMAIN ft_request.fetch.data
    /\ "errNm" \in DOMAIN ft_request.fetch.data.ctatt
    /\ ft_request.fetch.data.ctatt.errNm \notin {None, ""}

MissingKeys ==
    \/ "ctatt" \notin DOMAIN ft_request.fetch.data
    \/ "route" \notin DOMAIN ft_request.fetch.data.ctatt
    \/ ft_request.fetch.data.ctatt.route = <<>>
    \/ "train" \notin DOMAIN ft_request.fetch.data.ctatt.route[1]

\* C7: the class of the outcome, decided in the order 500, 400, found = false, ranking
C7_OutcomeClasses ==
    Answered =>
        IF FetchRaised THEN ft_response.status = 500
        ELSE IF CarriesErrNm
        THEN /\ ft_response.status = 400
             /\ ft_response.detail = ft_request.fetch.data.ctatt.errNm
        ELSE IF MissingKeys
        THEN /\ ft_response.status = 200
             /\ ~ft_response.body.found
             /\ ft_response.body.message = "No trains found on this line right now."
        ELSE /\ ft_response.status = 200
             /\ ft_response.body.found
                  \/ ft_response.body.message = "No live trains found."

\* an answer that carries an error name and no route: the order decides, 400
C7_Witness ==
    /\ Answered /\ ~FetchRaised /\ CarriesErrNm /\ MissingKeys
    /\ ft_response.status = 400

(***************************************************************************)
(* C8.  For every POST /submit-report request: upload_fileobj is called at *)
(* most once; a success receipt with a file_url is returned only if that   *)
(* one upload completed without error; and when reading the file or the    *)
(* upload fails the request ends with a 500 response.                      *)
(***************************************************************************)
C8_OneUploadThenReceipt ==
    \A i \in DOMAIN subs :
        LET sub == subs[i]
        IN  /\ sub.uploads <= 1
            /\ sub.status = 200 =>
                  /\ sub.read = "ok" /\ sub.upload = "ok" /\ sub.uploads = 1
                  /\ sub.file_url = FileUrl(AWS_BUCKET_NAME, sub.s3_key)
            /\ (sub.read = "raised" \/ sub.upload \in {"raised", "NameError"}) =>
                  sub.status = 500
            /\ sub.pc = "done" => sub.status \in {200, 500}

\* one request got its receipt, another's upload raised
C8_Witness ==
    \E i, j \in DOMAIN subs :
        /\ subs[i].status = 200
        /\ subs[j].status = 500 /\ subs[j].upload = "raised" /\ subs[j].uploads = 1

(***************************************************************************)
(* C9.  Under every interleaving of submissions, each submission that got  *)
(* a success receipt still has exactly its own bytes stored under the key  *)
(* reports/{timestamp}_RUN{run_number}.jpg its receipt names.              *)
(***************************************************************************)
C9_EvidenceKept ==
    \A i \in DOMAIN subs :
        subs[i].status = 200 =>
            /\ subs[i].s3_key \in DOMAIN bucket
            /\ bucket[subs[i].s3_key] = Photo(i)

(***************************************************************************)
(* C10.  If one of CTA_API_KEY, AWS_ACCESS_KEY_ID, AWS_SECRET_ACCESS_KEY,  *)
(* AWS_BUCKET_NAME is absent or empty at process start, the start fails    *)
(* before any request is served; no request is handled while one of the    *)
(* values is missing; and the values never change after the start.         *)
(***************************************************************************)
MissingAtStart == \E n \in ConfigNames : environ[n] \in {None, ""}

Served ==
    \/ root_response.status # 0
    \/ ft_response.status # 0
    \/ \E i \in DOMAIN subs : subs[i].pc # "new"

ConfigSet ==
    \A v \in {CTA_API_KEY, AWS_ACCESS_KEY_ID, AWS_SECRET_ACCESS_KEY, AWS_BUCKET_NAME} :
        v \notin {None, "", Unbound}

\* C10: a missing value fails the start before any request; the served process has all
\* four values, and they do not change once the import has run
C10_ConfigBeforeRequests ==
    /\ [](MissingAtStart => (proc # "serving" /\ ~Served))
    /\ [](Served => ConfigSet)
    /\ [][(MissingAtStart /\ proc = "boot" /\ proc' # "boot") => proc' = "failed"]_vars
    /\ [][proc = "failed" => proc' = "failed"]_vars
    /\ [][proc # "boot" => configVars' = configVars]_vars

\* the start failed on an empty bucket name, the other three values being set
C10_Witness ==
    /\ proc = "failed"
    /\ environ["AWS_BUCKET_NAME"] = ""
    /\ \A n \in ConfigNames \ {"AWS_BUCKET_NAME"} : environ[n] = "set"

====
